---- MODULE Spec2Model ----
(***************************************************************************)
(* quant-wheel: the Field abstraction (field/abstract.py, field/basic.py,  *)
(* field/core.py, field/_types.py) and the accumulating operator engine    *)
(* (operator/abstract.py), as state machines.                              *)
(*                                                                         *)
(* Python values are tagged records: None, ints, lists, pandas Series and  *)
(* DataFrames, PandasField objects.  A call that raises is modelled by the *)
(* exception's kind in the err field of the call's result; whatever the    *)
(* call changed before raising stays changed.                              *)
(***************************************************************************)
EXTENDS Integers, Sequences, FiniteSets, TLC

VARIABLES
    op_count,   \* AbstractTsOperator.__op_count__ : name -> int
    op_cache,   \* AbstractTsOperator.__op_cache__ : <<name, count>> -> value
    nwin,       \* the window length n the caller passes to accumulate
    ret,        \* the last call on the operator: its arguments and its outcome
    ncalls,     \* calls made on the operator that got past name validation
    resets,     \* how many times __op_reset__ ran
    hist,       \* per accumulate name: the accumulate calls made since creation
    slog,       \* per slot: the _save/_load calls made on it
    fld,        \* a free-standing Field object (None before construction)
    fret        \* the last call on the free-standing Field and its outcome

opvars == <<op_count, op_cache, nwin, ret, ncalls, resets, hist, slog>>
fldvars == <<fld, fret>>
vars == <<op_count, op_cache, nwin, ret, ncalls, resets, hist, slog, fld, fret>>

----------------------------------------------------------------------------
(* Bounds of the model *)

\* calls made on one operator instance (calls rejected for an empty name,
\* which change nothing, are not counted)
MaxCalls == 4
\* calls made on an operator instance that uses a single operator name
MaxCursorCalls == 5
\* largest window length n passed to accumulate, and largest row count of a
\* free-standing Matrix Field
MaxRows == 2

----------------------------------------------------------------------------
(* Python values *)

None == [t |-> "None"]
PyInt(i) == [t |-> "int", v |-> i]
PyList(s) == [t |-> "list", v |-> s]
\* np.nan as a cell value; every other cell is a natural number
NaN == -1

IsNone(v) == v.t = "None"
IsInt(v) == v.t = "int"
IsList(v) == v.t = "list"
IsSeries(v) == v.t = "Series"
IsFrame(v) == v.t = "DataFrame"
IsField(v) == v.t = "PandasField"

\* Python truthiness of an Optional[list] argument
Truthy(v) == IsList(v) /\ Len(v.v) > 0

\* pd.Series(index=..., values) and pd.DataFrame(index, columns, rows)
Series(index, vals) == [t |-> "Series", index |-> index, vals |-> vals]
Frame(index, columns, rows) ==
    [t |-> "DataFrame", index |-> index, columns |-> columns, rows |-> rows]

\* pd.Series(scalar, index=tickers)
ScalarSeries(c, tickers) == Series(tickers, [i \in 1..Len(tickers) |-> c])
\* pd.DataFrame(scalar, columns=tickers, index=timestamps)
ScalarFrame(c, tickers, timestamps) ==
    Frame(timestamps, tickers,
          [i \in 1..Len(timestamps) |-> [j \in 1..Len(tickers) |-> c]])

\* list(range(n))
Range(n) == [i \in 1..n |-> i - 1]

----------------------------------------------------------------------------
(* field/_types.py: the dimension classifier *)

\* isinstance(v, D0): a plain int or float
IsD0(v) == IsInt(v)
\* isinstance(v, D1): has a shape of length 1
IsD1(v) == IsSeries(v)
\* isinstance(v, D2): has a shape of length 2
IsD2(v) == IsFrame(v)

\* get_shape(data)
get_shape(data) ==
    IF IsD0(data) THEN <<>>
    ELSE IF IsSeries(data) THEN <<Len(data.vals)>>
    ELSE <<Len(data.rows), Len(data.columns)>>

----------------------------------------------------------------------------
(* field/basic.py: PandasField *)

\* A PandasField object: its instance attributes data and dim.  tickers,
\* timestamps and shape are properties derived from them.
Field(dim, data) == [t |-> "PandasField", dim |-> dim, data |-> data]

\* PandasField.tickers
tickers(f) ==
    IF f.dim = "D1" THEN PyList(f.data.index)
    ELSE IF f.dim = "D2" THEN PyList(f.data.columns)
    ELSE None

\* PandasField.timestamps
timestamps(f) == IF f.dim = "D2" THEN PyList(f.data.index) ELSE None

\* PandasField.shape
shape(f) == get_shape(f.data)

Ok(v) == [err |-> "none", val |-> v]
Raise(kind) == [err |-> kind, val |-> None]

\* PandasField.__init__ without the two branches that give a number labels
PandasField_init_unlabelled(data, tks, tms) ==
    IF IsInt(data) THEN Ok(Field("D0", data))
    ELSE IF IsSeries(data) THEN
        IF Truthy(tks) /\ Len(tks.v) # Len(data.vals) THEN Raise("ValueError")
        ELSE Ok(Field("D1",
                IF Truthy(tks) THEN Series(tks.v, data.vals) ELSE data))
    ELSE IF IsFrame(data) THEN
        IF Truthy(tks) /\ Len(tks.v) # Len(data.columns) THEN Raise("ValueError")
        ELSE IF Truthy(tms) /\ Len(tms.v) # Len(data.rows) THEN Raise("ValueError")
        ELSE Ok(Field("D2",
                Frame(IF Truthy(tms) THEN tms.v ELSE data.index,
                      IF Truthy(tks) THEN tks.v ELSE data.columns,
                      data.rows)))
    ELSE Raise("TypeError")

\* PandasField.__init__(data, tickers=tks, timestamps=tms); pandas refuses
\* (ValueError) a label list whose length differs from the axis it relabels
PandasField_init(data, tks, tms) ==
    IF IsInt(data) THEN
        IF Truthy(tks) /\ Truthy(tms)
        THEN Ok(Field("D2", ScalarFrame(data.v, tks.v, tms.v)))
        ELSE IF Truthy(tks)
        THEN Ok(Field("D1", ScalarSeries(data.v, tks.v)))
        ELSE Ok(Field("D0", data))
    ELSE IF IsSeries(data) THEN
        IF Truthy(tks) /\ Len(tks.v) # Len(data.vals) THEN Raise("ValueError")
        ELSE Ok(Field("D1",
                IF Truthy(tks) THEN Series(tks.v, data.vals) ELSE data))
    ELSE IF IsFrame(data) THEN
        IF Truthy(tks) /\ Len(tks.v) # Len(data.columns) THEN Raise("ValueError")
        ELSE IF Truthy(tms) /\ Len(tms.v) # Len(data.rows) THEN Raise("ValueError")
        ELSE Ok(Field("D2",
                Frame(IF Truthy(tms) THEN tms.v ELSE data.index,
                      IF Truthy(tks) THEN tks.v ELSE data.columns,
                      data.rows)))
    ELSE Raise("TypeError")

----------------------------------------------------------------------------
(* field/abstract.py: the validator layer *)

\* AbstractField._init_valitator: checks the label attributes against the
\* dimension of data and sets dim
init_valitator(f) ==
    IF IsD0(f.data) THEN
        IF ~IsNone(tickers(f)) \/ ~IsNone(timestamps(f))
        THEN Raise("MethodImplementionError")
        ELSE Ok([f EXCEPT !.dim = "D0"])
    ELSE IF IsD1(f.data) THEN
        IF ~IsNone(timestamps(f)) THEN Raise("MethodImplementionError")
        ELSE Ok([f EXCEPT !.dim = "D1"])
    ELSE IF IsD2(f.data) THEN Ok([f EXCEPT !.dim = "D2"])
    ELSE Raise("MethodImplementionError")

\* _AbstractFieldMeta.__call__: __init__, then _init_valitator, then shift
\* and setrow are wrapped (see shift and setrow below)
NewField(data, tks, tms) ==
    LET made == PandasField_init(data, tks, tms)
    IN  IF made.err # "none" THEN made ELSE init_valitator(made.val)

\* impl_validate's wrapper, after the method body returned result: it calls
\* validator(*result).  Unpacking needs an iterable; a PandasField, None or
\* an int is none, and the validators take no argument, so only an empty
\* list passes.
impl_validate(result) ==
    IF IsList(result) /\ Len(result.v) = 0 THEN "none" ELSE "TypeError"

\* DataFrame.shift(n) / Series.shift(n): values move n positions down (up
\* for n < 0), labels stay, exposed positions become NaN
ShiftSeq(s, n, fill) ==
    [i \in 1..Len(s) |-> IF i - n >= 1 /\ i - n <= Len(s) THEN s[i - n] ELSE fill]

data_shift(data, n) ==
    IF IsFrame(data)
    THEN Frame(data.index, data.columns,
               ShiftSeq(data.rows, n, [j \in 1..Len(data.columns) |-> NaN]))
    ELSE Series(data.index, ShiftSeq(data.vals, n, NaN))

\* PandasField.shift(n), the implementation body.  A Scalar's data is a
\* plain number with no shift attribute.
shift_body(f, n) ==
    IF IsD0(f.data) THEN Raise("AttributeError")
    ELSE NewField(data_shift(f.data, n), tickers(f), timestamps(f))

\* f.shift(n) as callers reach it: the body, then impl_validate's check of
\* its result.  [err, val: the returned Field, ran: the body ran]
shift(f, n) ==
    LET r == shift_body(f, n)
    IN  IF r.err # "none" THEN [err |-> r.err, val |-> None, ran |-> TRUE]
        ELSE IF impl_validate(r.val) # "none"
        THEN [err |-> impl_validate(r.val), val |-> None, ran |-> TRUE]
        ELSE [err |-> "none", val |-> r.val, ran |-> TRUE]

\* data.iloc[n] = row on a DataFrame, data.iloc[n] = cell on a Series;
\* n is 0-based and may count from the end when negative
IlocPos(n, len) == IF n < 0 THEN n + len + 1 ELSE n + 1
IlocLen(data) == IF IsFrame(data) THEN Len(data.rows) ELSE Len(data.vals)
IlocInRange(data, n) == IlocPos(n, IlocLen(data)) \in 1..IlocLen(data)

\* data.iloc[n] = c for a number c
iloc_set_num(data, n, c) ==
    IF IsFrame(data)
    THEN [data EXCEPT !.rows[IlocPos(n, Len(data.rows))] =
                          [j \in 1..Len(data.columns) |-> c]]
    ELSE [data EXCEPT !.vals[IlocPos(n, Len(data.vals))] = c]

\* data.iloc[n] = series on a DataFrame: positional, no label alignment
iloc_set_series(data, n, s) ==
    [data EXCEPT !.rows[IlocPos(n, Len(data.rows))] = s.vals]

\* setrow rebinding self.data to a number instead of writing it into row n
setrow_body_rebinding(f, n, value) ==
    IF IsInt(value) THEN [err |-> "none", self |-> [f EXCEPT !.data = value]]
    ELSE [err |-> "TypeError", self |-> f]

\* PandasField.setrow(n, value), the implementation body.
\* [err, self: the Field after the call]
setrow_body(f, n, value) ==
    IF IsInt(value) THEN
        IF IsD0(f.data) THEN [err |-> "AttributeError", self |-> f]
        ELSE IF ~IlocInRange(f.data, n) THEN [err |-> "IndexError", self |-> f]
        ELSE [err |-> "none",
              self |-> [f EXCEPT !.data = iloc_set_num(f.data, n, value.v)]]
    ELSE IF IsField(value) THEN
        IF IsD0(f.data) THEN [err |-> "AttributeError", self |-> f]
        ELSE IF ~IlocInRange(f.data, n) THEN [err |-> "IndexError", self |-> f]
        ELSE IF IsInt(value.data)
        THEN [err |-> "none",
              self |-> [f EXCEPT !.data = iloc_set_num(f.data, n, value.data.v)]]
        ELSE IF IsFrame(f.data) /\ IsSeries(value.data)
                /\ Len(value.data.vals) = Len(f.data.columns)
        THEN [err |-> "none",
              self |-> [f EXCEPT !.data = iloc_set_series(f.data, n, value.data)]]
        ELSE [err |-> "ValueError", self |-> f]
    ELSE [err |-> "TypeError", self |-> f]

\* f.setrow(n, value) as callers reach it: the body, then impl_validate's
\* check of its result, which is None.  [err, self, ran]
setrow(f, n, value) ==
    LET r == setrow_body(f, n, value)
    IN  IF r.err # "none" THEN [err |-> r.err, self |-> r.self, ran |-> TRUE]
        ELSE [err |-> impl_validate(None), self |-> r.self, ran |-> TRUE]

----------------------------------------------------------------------------
(* Inputs of the model *)

\* column labels of every Vector handed to accumulate
Tickers == <<"t1", "t2">>
\* the Vector Field handed to the k-th accumulate call under a name:
\* callers supply a distinct vector each time
XField(k) == Field("D1", Series(Tickers, <<2 * k - 1, 2 * k>>))
\* operator names handed to accumulate; "x_save" is slot "x"'s counter name
AccNames == {"", "a", "x_save"}
\* accumulate's method argument; "sideways" stands for any unrecognized one
Methods == {"back", "forward", "increasing", "sideways"}
\* slot names handed to _save and _load
Slots == {"x"}
\* the value handed to the k-th save call on a slot: callers save a distinct
\* value each time
SaveVal(k) == PyInt(10 + k)
\* defaults handed to _load
LoadDefaults == {None, PyInt(9)}

----------------------------------------------------------------------------
(* operator/abstract.py: AbstractTsOperator *)

\* d[k] = v on a Python dict
DictSet(d, k, v) == [q \in (DOMAIN d) \cup {k} |-> IF q = k THEN v ELSE d[q]]

\* _get_op_list() of AbstractTsOperator itself: it has no public method
\* other than accumulate
op_list == {}

\* __get_count(name): [counts, count]
get_count(counts, name) ==
    LET c0 == IF name \in DOMAIN counts THEN counts ELSE DictSet(counts, name, 0)
        c1 == [c0 EXCEPT ![name] = @ + 1]
    IN  [counts |-> c1, count |-> c1[name]]

\* __accumulate_init(x, n, name, count, default): [err, cache]
accumulate_init(cache, x, n, name, count, default) ==
    IF <<name \o "_row", count>> \in DOMAIN cache
    THEN [err |-> "none", cache |-> cache]
    ELSE LET d == IF IsNone(default) THEN PyInt(NaN) ELSE default
             made == NewField(d, tickers(x), PyList(Range(n)))
         IN  IF made.err # "none" THEN [err |-> made.err, cache |-> cache]
             ELSE [err |-> "none",
                   cache |-> DictSet(DictSet(cache, <<name, count>>, made.val),
                                     <<name \o "_row", count>>, PyInt(0))]

\* __accumulate_back(x, name, count): [err, cache, val, operand]
accumulate_back(cache, x, name, count) ==
    IF <<name, count>> \notin DOMAIN cache
    THEN [err |-> "KeyError", cache |-> cache, val |-> None, operand |-> None]
    ELSE LET f == cache[<<name, count>>]
             fail(kind) == [err |-> kind, cache |-> cache, val |-> None,
                            operand |-> f]
         IN  IF ~IsField(f) THEN fail("AttributeError")
             ELSE LET s == shift(f, -1)
                  IN  IF s.err # "none" THEN fail(s.err)
                      ELSE LET st == setrow(s.val, shape(s.val)[1] - 1, x)
                           IN  IF st.err # "none" THEN fail(st.err)
                               ELSE [err |-> "none",
                                     cache |-> DictSet(cache, <<name, count>>, st.self),
                                     val |-> st.self, operand |-> f]

\* __accumulate_forward(x, name, count): [err, cache, val, operand].  setrow
\* writes into the cached object itself, so the cache entry holds whatever
\* setrow did even when setrow raises.
accumulate_forward(cache, x, name, count) ==
    IF <<name, count>> \notin DOMAIN cache
       \/ <<name \o "_row", count>> \notin DOMAIN cache
    THEN [err |-> "KeyError", cache |-> cache, val |-> None, operand |-> None]
    ELSE LET f == cache[<<name, count>>]
             nrow == cache[<<name \o "_row", count>>]
         IN  IF ~IsField(f)
             THEN [err |-> "AttributeError", cache |-> cache, val |-> None,
                   operand |-> f]
             ELSE LET st == setrow(f, nrow.v, x)
                      written == DictSet(cache, <<name, count>>, st.self)
                  IN  IF st.err # "none"
                      THEN [err |-> st.err, cache |-> written, val |-> None,
                            operand |-> f]
                      ELSE [err |-> "none",
                            cache |-> DictSet(written, <<name \o "_row", count>>,
                                              PyInt(nrow.v + 1)),
                            val |-> st.self, operand |-> f]

\* __accumulate_increase(name, count): [err, cache, val, operand]
accumulate_increase(cache, name, count) ==
    IF <<name \o "_row", count>> \notin DOMAIN cache
    THEN [err |-> "KeyError", cache |-> cache, val |-> None, operand |-> None]
    ELSE LET nrow == cache[<<name \o "_row", count>>]
         IN  IF ~IsInt(nrow)
             THEN [err |-> "TypeError", cache |-> cache, val |-> None,
                   operand |-> None]
             ELSE [err |-> "none",
                   cache |-> DictSet(cache, <<name \o "_row", count>>,
                                     PyInt(nrow.v + 1)),
                   val |-> nrow, operand |-> None]

\* accumulate(x, n, name, default, method), from line 79 on: the count,
\* then the method. [err, counts, cache, val, count, operand]
accumulate_named(counts, cache, x, n, name, default, method) ==
    LET gc == get_count(counts, name)
        out(r) == [err |-> r.err, counts |-> gc.counts, cache |-> r.cache,
                   val |-> r.val, count |-> gc.count, operand |-> r.operand]
        init == accumulate_init(cache, x, n, name, gc.count, default)
        initfail == [err |-> init.err, cache |-> init.cache, val |-> None,
                     operand |-> None]
    IN  IF method = "back"
        THEN IF init.err # "none" THEN out(initfail)
             ELSE out(accumulate_back(init.cache, x, name, gc.count))
        ELSE IF method = "forward"
        THEN IF init.err # "none" THEN out(initfail)
             ELSE out(accumulate_forward(init.cache, x, name, gc.count))
        ELSE IF method = "increasing"
        THEN out(accumulate_increase(cache, name, gc.count))
        ELSE out([err |-> "ValueError", cache |-> cache, val |-> None,
                  operand |-> None])

\* accumulate with the check of name left out
accumulate_unchecked(counts, cache, x, n, name, default, method) ==
    accumulate_named(counts, cache, x, n, name, default, method)

\* accumulate(x, n, name, default, method):
\* [err, counts, cache, val, count, operand]
accumulate(counts, cache, x, n, name, default, method) ==
    IF name = ""
    THEN [err |-> "ValueError", counts |-> counts, cache |-> cache,
          val |-> None, count |-> 0, operand |-> None]
    ELSE accumulate_named(counts, cache, x, n, name, default, method)

\* _save(x, f_name): [counts, cache]
save(counts, cache, x, f_name) ==
    LET gc == get_count(counts, f_name \o "_save")
    IN  [counts |-> gc.counts,
         cache |-> DictSet(cache, <<f_name \o "_save", gc.count>>, x)]

\* _load(f_name, default): [err, counts, cache, val, autosaved]
load(counts, cache, f_name, default) ==
    LET gc == get_count(counts, f_name \o "_load")
        key == <<f_name \o "_save", gc.count>>
        missing == key \notin DOMAIN cache
        sv == IF missing THEN save(gc.counts, cache, default, f_name)
              ELSE [counts |-> gc.counts, cache |-> cache]
    IN  IF key \in DOMAIN sv.cache
        THEN [err |-> "none", counts |-> sv.counts, cache |-> sv.cache,
              val |-> sv.cache[key], autosaved |-> missing]
        ELSE [err |-> "KeyError", counts |-> sv.counts, cache |-> sv.cache,
              val |-> None, autosaved |-> missing]

\* __op_reset__ emptying the cache as well
op_reset_clearing(counts, cache) ==
    [counts |-> [name \in DOMAIN counts |-> 0], cache |-> <<>>]

\* __op_reset__(): every counter back to 0, the cache untouched.
\* [counts, cache]
op_reset(counts, cache) ==
    [counts |-> [name \in DOMAIN counts |-> 0], cache |-> cache]

\* __op_join__(): the state after construction. [counts, cache]
op_join == [counts |-> [name \in op_list |-> 0], cache |-> <<>>]

----------------------------------------------------------------------------
(* The operator engine as a state machine *)

NoCall == [op |-> "init", name |-> "", method |-> "", x |-> None,
           dflt |-> None, err |-> "none", val |-> None, count |-> 0,
           operand |-> None, autosaved |-> FALSE]

\* history of one accumulate name.  m, xs: the method shared by all its
\* calls since creation and the vectors they supplied in call order, or
\* "mixed" (calls of different methods, or a reset happened).  k: its calls
\* since creation.  e: its calls since the last reset.  fv[c]: how many
\* times cache key (name, c) was visited, when every visit was a forward
\* call, and -1 when another method visited it.
NoHist == [m |-> "none", xs |-> <<>>, k |-> 0, e |-> 0, fv |-> <<>>]
Mixed(h) == [h EXCEPT !.m = "mixed", !.xs = <<>>, !.e = 0]
Visit(fv, c, method) ==
    [i \in 1..(IF c > Len(fv) THEN c ELSE Len(fv)) |->
        LET old == IF i <= Len(fv) THEN fv[i] ELSE 0
        IN  IF i # c THEN old
            ELSE IF method = "forward" /\ old >= 0 THEN old + 1 ELSE -1]
HistCall(h, method, x, c) ==
    [m |-> IF h.m = "none" \/ h.m = method THEN method ELSE "mixed",
     xs |-> IF h.m = "none" \/ h.m = method THEN Append(h.xs, x.data.vals)
            ELSE <<>>,
     k |-> h.k + 1,
     e |-> h.e + 1,
     fv |-> Visit(h.fv, c, method)]

\* history of one slot: the values of the _save calls of this epoch in call
\* order (a _load's own _save call included), the number of _load calls of
\* this epoch, the number of save calls ever made on the slot, and the
\* default of the first k-th _load ever made, for each k
NoSlog == [saves |-> <<>>, nloads |-> 0, nsave |-> 0, dflts |-> <<>>]

\* the vector the next accumulate call under name supplies
NextX(name) == IF name = "" THEN XField(1) ELSE XField(hist[name].k + 1)

OpInit ==
    /\ op_count = op_join.counts
    /\ op_cache = op_join.cache
    /\ nwin \in 1..MaxRows
    /\ ret = NoCall
    /\ ncalls = 0
    /\ resets = 0
    /\ hist = [name \in AccNames \ {""} |-> NoHist]
    /\ slog = [s \in Slots |-> NoSlog]

\* accumulate never looks at the method of a call with an empty name: such
\* calls are made with one recognized and one unrecognized method
Accumulate ==
    \E name \in AccNames, method \in Methods :
        /\ name = "" => method \in {"back", "sideways"}
        /\ name = "" \/ ncalls < MaxCalls
        /\ LET x == NextX(name)
               r == accumulate(op_count, op_cache, x, nwin, name, None, method)
           IN  /\ op_count' = r.counts
               /\ op_cache' = r.cache
               /\ ret' = [op |-> "accumulate", name |-> name, method |-> method,
                          x |-> x, dflt |-> None, err |-> r.err,
                          val |-> r.val, count |-> r.count,
                          operand |-> r.operand, autosaved |-> FALSE]
               /\ hist' = IF name = "" THEN hist
                          ELSE [hist EXCEPT ![name] = HistCall(@, method, x, r.count)]
        /\ ncalls' = IF name = "" THEN ncalls ELSE ncalls + 1
        /\ UNCHANGED <<nwin, resets, slog>>

Save ==
    \E s \in Slots :
        /\ ncalls < MaxCalls
        /\ LET v == SaveVal(slog[s].nsave + 1)
               r == save(op_count, op_cache, v, s)
           IN  /\ op_count' = r.counts
               /\ op_cache' = r.cache
               /\ ret' = [NoCall EXCEPT !.op = "save", !.name = s, !.x = v,
                                        !.count = r.counts[s \o "_save"]]
               /\ slog' = [slog EXCEPT ![s].saves = Append(@, v),
                                       ![s].nsave = @ + 1]
        /\ ncalls' = ncalls + 1
        /\ UNCHANGED <<nwin, resets, hist>>

Load ==
    \E s \in Slots, d \in LoadDefaults :
        /\ ncalls < MaxCalls
        /\ LET r == load(op_count, op_cache, s, d)
           IN  /\ op_count' = r.counts
               /\ op_cache' = r.cache
               /\ ret' = [NoCall EXCEPT !.op = "load", !.name = s, !.dflt = d,
                                        !.err = r.err, !.val = r.val,
                                        !.count = r.counts[s \o "_load"],
                                        !.autosaved = r.autosaved]
               /\ slog' = [slog EXCEPT
                    ![s].nloads = @ + 1,
                    ![s].saves = IF r.autosaved THEN Append(@, d) ELSE @,
                    ![s].dflts = IF slog[s].nloads + 1 > Len(@)
                                 THEN Append(@, d) ELSE @]
        /\ ncalls' = ncalls + 1
        /\ UNCHANGED <<nwin, resets, hist>>

Reset ==
    /\ ncalls < MaxCalls
    /\ LET r == op_reset(op_count, op_cache)
       IN  /\ op_count' = r.counts
           /\ op_cache' = r.cache
    /\ ret' = [NoCall EXCEPT !.op = "reset"]
    /\ ncalls' = ncalls + 1
    /\ resets' = resets + 1
    /\ hist' = [name \in DOMAIN hist |-> Mixed(hist[name])]
    /\ slog' = [s \in Slots |-> [slog[s] EXCEPT !.saves = <<>>, !.nloads = 0]]
    /\ UNCHANGED nwin

----------------------------------------------------------------------------
(* A free-standing Field as a state machine *)

\* data handed to field(): a number, a Series, a DataFrame of 1..MaxRows rows
FData ==
    {PyInt(5), Series(Tickers, <<1, 2>>)}
    \cup { Frame(Range(r), Tickers, [i \in 1..r |-> <<10 * i + 1, 10 * i + 2>>]) :
           r \in 1..MaxRows }
\* tickers and timestamps handed to field()
FTickers == {None, PyList(<<>>), PyList(<<"u1", "u2">>)}
FTimestamps == {None, PyList(<<>>)} \cup { PyList(Range(r)) : r \in 1..MaxRows }
\* the n handed to shift, and the value handed to setrow
FShifts == {-1, 0, 1}
FValues == {PyInt(9), XField(1), None}

NoField == [op |-> "init", n |-> 0, value |-> None, err |-> "none",
            val |-> None, before |-> None, ran |-> FALSE,
            data |-> None, tks |-> None, tms |-> None]

\* f = field(data, tickers=tks, timestamps=tms); f keeps its old value when
\* the construction raises
Construct ==
    \E data \in FData, tks \in FTickers, tms \in FTimestamps :
        LET r == NewField(data, tks, tms)
        IN  /\ fld' = IF r.err = "none" THEN r.val ELSE fld
            /\ fret' = [NoField EXCEPT !.op = "construct", !.err = r.err,
                                       !.val = r.val, !.before = fld,
                                       !.data = data, !.tks = tks, !.tms = tms]

\* g = f.shift(n)
FShift ==
    /\ IsField(fld)
    /\ \E n \in FShifts :
        LET r == shift(fld, n)
        IN  /\ fld' = fld
            /\ fret' = [NoField EXCEPT !.op = "shift", !.n = n, !.err = r.err,
                                       !.val = r.val, !.before = fld,
                                       !.ran = r.ran]

\* f.setrow(n, value)
FSetrow ==
    /\ IsField(fld)
    /\ \E n \in -1..MaxRows, value \in FValues :
        LET r == setrow(fld, n, value)
        IN  /\ fld' = r.self
            /\ fret' = [NoField EXCEPT !.op = "setrow", !.n = n,
                                       !.value = value, !.err = r.err,
                                       !.before = fld, !.ran = r.ran]

----------------------------------------------------------------------------
(* Specifications *)

Init == OpInit /\ fld = None /\ fret = NoField

Next ==
    \/ Accumulate /\ UNCHANGED fldvars
    \/ Save /\ UNCHANGED fldvars
    \/ Load /\ UNCHANGED fldvars
    \/ Reset /\ UNCHANGED fldvars

\* the operator engine
Spec == Init /\ [][Next]_vars

FieldInit == OpInit /\ nwin = 1 /\ fld = None /\ fret = NoField

FieldNext ==
    \/ Construct /\ UNCHANGED opvars
    \/ FShift /\ UNCHANGED opvars
    \/ FSetrow /\ UNCHANGED opvars

\* a free-standing Field
FieldSpec == FieldInit /\ [][FieldNext]_vars

\* An operator whose caller uses the single name "a" with the recognized
\* methods, and resets it: longer call sequences on one cache key.
CursorMethods == {"back", "forward", "increasing"}

CursorAccumulate ==
    \E method \in CursorMethods :
        /\ ncalls < MaxCursorCalls
        /\ LET x == NextX("a")
               r == accumulate(op_count, op_cache, x, nwin, "a", None, method)
           IN  /\ op_count' = r.counts
               /\ op_cache' = r.cache
               /\ ret' = [op |-> "accumulate", name |-> "a", method |-> method,
                          x |-> x, dflt |-> None, err |-> r.err,
                          val |-> r.val, count |-> r.count,
                          operand |-> r.operand, autosaved |-> FALSE]
               /\ hist' = [hist EXCEPT !["a"] = HistCall(@, method, x, r.count)]
        /\ ncalls' = ncalls + 1
        /\ UNCHANGED <<nwin, resets, slog>>

CursorReset ==
    /\ ncalls < MaxCursorCalls
    /\ LET r == op_reset(op_count, op_cache)
       IN  /\ op_count' = r.counts
           /\ op_cache' = r.cache
    /\ ret' = [NoCall EXCEPT !.op = "reset"]
    /\ ncalls' = ncalls + 1
    /\ resets' = resets + 1
    /\ hist' = [name \in DOMAIN hist |-> Mixed(hist[name])]
    /\ slog' = [s \in Slots |-> [slog[s] EXCEPT !.saves = <<>>, !.nloads = 0]]
    /\ UNCHANGED nwin

CursorNext ==
    \/ CursorAccumulate /\ UNCHANGED fldvars
    \/ CursorReset /\ UNCHANGED fldvars

CursorSpec == Init /\ [][CursorNext]_vars

----------------------------------------------------------------------------
(* Claims *)

NamesNE == AccNames \ {""}
CountIn(counts, name) == IF name \in DOMAIN counts THEN counts[name] ELSE 0
NaNRow == [j \in 1..Len(Tickers) |-> NaN]

\* the n-row window the claim expects after the vectors xs: the last
\* min(k, n) rows are the last min(k, n) vectors, the rows before them NaN
ExpectedWindow(xs, n) ==
    LET k == Len(xs)
        m == IF k < n THEN k ELSE n
    IN  [i \in 1..n |-> IF i > n - m THEN xs[k - (n - i)] ELSE NaNRow]

\* C1: on a fresh instance whose only calls are k back calls under one name,
\* the k-th call succeeds and returns an n-row buffer whose last min(k, n)
\* rows are the vectors supplied last, in call order, the rows before them
\* placeholder.
C1_BackWindowFilled ==
    \A name \in NamesNE :
        (ret.op = "accumulate" /\ ret.name = name /\ hist[name].m = "back"
         /\ ncalls = hist[name].k)
        => /\ ret.err = "none"
           /\ IsField(ret.val)
           /\ ret.val.dim = "D2"
           /\ ret.val.data.rows = ExpectedWindow(hist[name].xs, nwin)

\* C2: invocation_count[name] is increased by exactly 1 by each accumulate
\* call made with that name, which uses the new value as its cache key
\* count, is set to 0 by a reset, and is changed by no other operation.
C2_CountOnlyByAccumulate ==
    [][\A name \in NamesNE :
          IF ret'.op = "accumulate" /\ ret'.name = name
          THEN /\ CountIn(op_count', name) = CountIn(op_count, name) + 1
               /\ ret'.count = CountIn(op_count', name)
          ELSE IF ret'.op = "reset" THEN CountIn(op_count', name) = 0
          ELSE CountIn(op_count', name) = CountIn(op_count, name)]_vars

\* C3: reset() sets every invocation_count entry to 0 and changes no cache
\* entry; and the first accumulate(..., method="back") under a name after a
\* reset, made while (name, 1) holds a buffer, takes count 1 and operates on
\* that cached buffer, not on a fresh one.
C3_ResetKeepsCache ==
    [][/\ ret'.op = "reset"
          => /\ op_cache' = op_cache
             /\ DOMAIN op_count' = DOMAIN op_count
             /\ \A name \in DOMAIN op_count' : op_count'[name] = 0
       /\ \A name \in NamesNE :
            (ret'.op = "accumulate" /\ ret'.name = name /\ ret'.method = "back"
             /\ resets >= 1 /\ hist[name].e = 0
             /\ <<name, 1>> \in DOMAIN op_cache
             /\ IsField(op_cache[<<name, 1>>]))
            => /\ ret'.count = 1
               /\ ret'.operand = op_cache[<<name, 1>>]]_vars

\* C3 witness: after a reset, the first back call under a name has operated
\* on the buffer of key (name, 1), whose first row a forward call wrote
\* before the reset.
C3_Witness ==
    /\ ret.op = "accumulate" /\ ret.name # "" /\ ret.method = "back"
    /\ resets >= 1 /\ hist[ret.name].e = 1 /\ ret.count = 1
    /\ IsField(ret.operand)
    /\ ret.operand.data.rows[1] # NaNRow
    /\ op_cache[<<ret.name, 1>>] = ret.operand

\* C4: on a fresh instance whose only calls are k increasing calls under one
\* name, the k-th call succeeds and returns k-1, and no Matrix buffer is
\* cached for that name.
C4_IncreasingCounts ==
    \A name \in NamesNE :
        (ret.op = "accumulate" /\ ret.name = name
         /\ hist[name].m = "increasing" /\ ncalls = hist[name].k)
        => /\ ret.err = "none"
           /\ ret.val = PyInt(hist[name].k - 1)
           /\ \A key \in DOMAIN op_cache :
                key[1] = name => ~IsField(op_cache[key])

\* C5: the j-th visit (1 <= j <= n) of a cache key that only forward calls
\* visit succeeds, writes x into row j-1 of the n-row buffer, leaves the
\* other rows as they were, leaves the row cursor at j and returns the
\* updated buffer.
C5_ForwardFillsRow ==
    [][\A name \in NamesNE :
          LET key == <<name, ret'.count>>
              rowkey == <<name \o "_row", ret'.count>>
              j == hist'[name].fv[ret'.count]
          IN  (ret'.op = "accumulate" /\ ret'.name = name
               /\ ret'.method = "forward" /\ j >= 1 /\ j <= nwin)
              => /\ ret'.err = "none"
                 /\ key \in DOMAIN op_cache'
                 /\ IsField(op_cache'[key])
                 /\ op_cache'[key].data.rows[j] = ret'.x.data.vals
                 /\ \A i \in (1..nwin) \ {j} :
                      op_cache'[key].data.rows[i] =
                        IF key \in DOMAIN op_cache
                        THEN op_cache[key].data.rows[i] ELSE NaNRow
                 /\ op_cache'[rowkey] = PyInt(j)
                 /\ ret'.val = op_cache'[key]]_vars

\* C6: when the k-th _save call of the epoch on slot s was made before the
\* k-th load(s) of the epoch, that load returns the value it saved.
C6_LoadReturnsKthSave ==
    \A s \in Slots :
        LET k == slog[s].nloads
            before == Len(slog[s].saves) - (IF ret.autosaved THEN 1 ELSE 0)
        IN  (ret.op = "load" /\ ret.name = s /\ k <= before)
            => /\ ret.err = "none"
               /\ ret.val = slog[s].saves[k]

\* C7: on a slot on which save was never called (and whose counter names no
\* accumulate call used), every k-th load returns the default given to the
\* first k-th load ever made, before and after resets.
C7_LoadDefaultSticks ==
    \A s \in Slots :
        (ret.op = "load" /\ ret.name = s /\ slog[s].nsave = 0
         /\ \A name \in DOMAIN hist :
              name \in {s \o "_save", s \o "_load"} => hist[name].k = 0)
        => /\ ret.err = "none"
           /\ ret.val = slog[s].dflts[slog[s].nloads]

\* what belongs to accumulate name A: its count, its buffers, its cursors
AccState(counts, cache, name) ==
    [count |-> CountIn(counts, name),
     entries |-> [key \in {q \in DOMAIN cache : q[1] \in {name, name \o "_row"}}
                  |-> cache[key]]]
\* what belongs to slot s: its two counters and its saved values
SlotState(counts, cache, s) ==
    [nsave |-> CountIn(counts, s \o "_save"),
     nload |-> CountIn(counts, s \o "_load"),
     entries |-> [key \in {q \in DOMAIN cache : q[1] = s \o "_save"}
                  |-> cache[key]]]

\* C8: a save or load on a slot changes nothing that belongs to an
\* accumulate name, and an accumulate under name A changes nothing that
\* belongs to a slot or to another accumulate name.
C8_NameIsolation ==
    [][/\ ret'.op \in {"save", "load"}
          => \A name \in NamesNE :
               AccState(op_count', op_cache', name)
                 = AccState(op_count, op_cache, name)
       /\ ret'.op = "accumulate"
          => /\ \A s \in Slots :
                  SlotState(op_count', op_cache', s)
                    = SlotState(op_count, op_cache, s)
             /\ \A name \in NamesNE \ {ret'.name} :
                  AccState(op_count', op_cache', name)
                    = AccState(op_count, op_cache, name)]_vars

\* C9: accumulate raises ValueError exactly when name is empty or method is
\* none of "back", "forward", "increasing".
C9_ValidationErrors ==
    ret.op = "accumulate"
    => (ret.err = "ValueError"
        <=> (ret.name = "" \/ ret.method \notin {"back", "forward", "increasing"}))

\* C9 witness: an accumulate call with a non-empty name and an unrecognized
\* method has raised ValueError.
C9_Witness ==
    /\ ret.op = "accumulate" /\ ret.name # ""
    /\ ret.method = "sideways" /\ ret.err = "ValueError"

\* C10: shift or setrow on a Scalar or Vector Field fails with a
\* call-precondition error before the implementation body runs and leaves
\* the Field unchanged.
C10_NonMatrixRefused ==
    (fret.op \in {"shift", "setrow"} /\ fret.before.dim \in {"D0", "D1"})
    => /\ fret.err = "MethodCallError"
       /\ ~fret.ran
       /\ fld = fret.before

C12_ShiftReturnsMatrix ==
    (fret.op = "shift" /\ fret.before.dim = "D2")
    => /\ fret.err = "none"
       /\ IsField(fret.val)
       /\ fret.val.dim = "D2"
       /\ shape(fret.val) = shape(fret.before)
       /\ tickers(fret.val) = tickers(fret.before)
       /\ timestamps(fret.val) = timestamps(fret.before)
       /\ fld = fret.before

\* the number of axes of a pandas object or number
NAxes(data) == IF IsInt(data) THEN 0 ELSE IF IsSeries(data) THEN 1 ELSE 2
DimAxes(dim) == IF dim = "D0" THEN 0 ELSE IF dim = "D1" THEN 1 ELSE 2
\* the lengths of the axes of a pandas object
AxisLens(data) ==
    IF IsInt(data) THEN <<>>
    ELSE IF IsSeries(data) THEN <<Len(data.index)>>
    ELSE <<Len(data.index), Len(data.columns)>>

\* the four invariants of a Field
Conformant(f) ==
    /\ f.dim \in {"D0", "D1", "D2"}
    /\ f.data.t \in {"int", "Series", "DataFrame"}
    /\ DimAxes(f.dim) = NAxes(f.data)
    /\ IsNone(tickers(f)) <=> f.dim = "D0"
    /\ IsNone(timestamps(f)) <=> f.dim \in {"D0", "D1"}
    /\ Len(shape(f)) = DimAxes(f.dim)
    /\ shape(f) = AxisLens(f.data)
    /\ IsSeries(f.data) => Len(f.data.vals) = Len(f.data.index)
    /\ IsFrame(f.data)
       => /\ Len(f.data.rows) = Len(f.data.index)
          /\ \A i \in 1..Len(f.data.rows) :
               Len(f.data.rows[i]) = Len(f.data.columns)

\* C13: every constructed Field satisfies the four invariants at construction
\* and after any sequence of shift and setrow calls on it, whether they
\* raised or not, and its dim is never changed by such a call.
C13_FieldInvariants ==
    /\ IsField(fld) => Conformant(fld)
    /\ (fret.op = "construct" /\ fret.err = "none") => Conformant(fret.val)
    /\ (fret.op = "shift" /\ fret.err = "none") => Conformant(fret.val)
    /\ fret.op \in {"shift", "setrow"}
       => /\ fld.dim = fret.before.dim
          /\ shape(fld) = shape(fret.before)
          /\ tickers(fld) = tickers(fret.before)
          /\ timestamps(fld) = timestamps(fret.before)

\* C13 witness: a setrow call has changed the data of a Matrix Field, and
\* the Field is still a conformant Matrix Field.
C13_Witness ==
    /\ fret.op = "setrow" /\ IsField(fld)
    /\ fret.before.dim = "D2" /\ fld.dim = "D2"
    /\ fld.data # fret.before.data
    /\ Conformant(fld)

\* C14: an accumulate call that fails with a validation error (empty name,
\* or unrecognized method with a non-empty name) leaves every
\* invocation_count entry, the one of the given name included, and every
\* buffer_cache entry unchanged.
C14_FailedAccumulateNoChange ==
    [][(/\ ret'.op = "accumulate"
        /\ ret'.err = "ValueError"
        /\ (ret'.name = ""
            \/ ret'.method \notin {"back", "forward", "increasing"}))
       => /\ op_count' = op_count
          /\ op_cache' = op_cache]_vars

\* C15: after any sequence of save, load and reset calls on one slot (whose
\* counter names no accumulate call used), a load call returns a value, it
\* never fails with a missing-key error, and it changes no value stored at
\* another position of the slot: it at most adds the default at the position
\* it reads, when that position holds nothing.
C15_LoadNeverFails ==
    [][\A s \in Slots :
          LET readkey == <<s \o "_save", ret'.count>>
          IN  (/\ ret'.op = "load" /\ ret'.name = s
               /\ \A name \in DOMAIN hist :
                    name \in {s \o "_save", s \o "_load"} => hist[name].k = 0)
              => /\ ret'.err = "none"
                 /\ \A key \in DOMAIN op_cache :
                      /\ key \in DOMAIN op_cache'
                      /\ op_cache'[key] = op_cache[key]
                 /\ DOMAIN op_cache' \subseteq DOMAIN op_cache \cup {readkey}
                 /\ readkey \in DOMAIN op_cache'
                 /\ ret'.val = op_cache'[readkey]]_vars

\* the row cursor that goes with cache key q
RowKey(q) == <<q[1] \o "_row", q[2]>>

\* C16: in every reachable state, for every cache key (name, c) that holds an
\* n-row Matrix buffer, the row cursor of the key satisfies
\* 0 <= cursor <= n, whatever back, forward and increasing calls and resets
\* reached the key; and a forward call arriving when the cursor is n fails
\* with an index error and leaves the cursor and the buffer unchanged.
C16_CursorWithinBuffer ==
    [][/\ \A q \in DOMAIN op_cache' :
            (/\ IsField(op_cache'[q])
             /\ op_cache'[q].dim = "D2"
             /\ RowKey(q) \in DOMAIN op_cache'
             /\ IsInt(op_cache'[RowKey(q)]))
            => /\ op_cache'[RowKey(q)].v >= 0
               /\ op_cache'[RowKey(q)].v <= shape(op_cache'[q])[1]
       /\ LET q == <<ret'.name, ret'.count>>
          IN  (/\ ret'.op = "accumulate" /\ ret'.method = "forward"
               /\ q \in DOMAIN op_cache
               /\ IsField(op_cache[q])
               /\ RowKey(q) \in DOMAIN op_cache
               /\ op_cache[RowKey(q)] = PyInt(shape(op_cache[q])[1]))
              => /\ ret'.err = "IndexError"
                 /\ op_cache'[q] = op_cache[q]
                 /\ op_cache'[RowKey(q)] = op_cache[RowKey(q)]]_vars

====
